---- MODULE Spec2Model ----
(***************************************************************************)
(* Model of spawner_driver/protocol_entities.rs: the controller-message    *)
(* decoder (Message::parse, Message::parse_header) and the Controller and  *)
(* Agent handles (send over an mpsc Sender, stdin() over Arc<Mutex<..>>).  *)
(*                                                                         *)
(* Three specifications share the module's variables; the parts of the     *)
(* program they cover share no state:                                      *)
(*   SpecParse  one input line is drawn, Message::parse is applied to it;  *)
(*   SpecLock   threads owning clones of one Controller call stdin(),      *)
(*              write under the guard, leave its scope or panic in it;     *)
(*   SpecBus    threads owning clones of the Controller and Agent handles  *)
(*              call send, the receiver takes events or is dropped.        *)
(***************************************************************************)
EXTENDS Integers, Sequences, FiniteSets, TLC

VARIABLES
    data,       \* the line handed to Message::parse (a sequence of bytes)
    pcParse,    \* "ready" before the call, "done" after it
    result,     \* what Message::parse returned
    pc,         \* per thread: where the thread is
    holder,     \* the thread that owns the Mutex<WritePipe>, 0 when unlocked
    poisoned,   \* the mutex's poison flag
    stream,     \* bytes written to the WritePipe, each <<thread, scope, k>>
    written,    \* per thread: bytes of the current marker already written
    locksDone,  \* per thread: calls of stdin() made so far
    rxAlive,    \* the Receiver<RunnerMessage> still exists
    bus,        \* every event the channel has enqueued, in enqueue order
    received,   \* how many events of bus the receiver has taken
    calls,      \* per thread: the events passed to send, in call order
    aliveAt,    \* per thread: for each call, whether the receiver was alive
    sendRet     \* per thread: how the last send call ended

parseVars == <<data, pcParse, result>>
lockVars  == <<pc, holder, poisoned, stream, written, locksDone>>
busVars   == <<rxAlive, bus, received, calls, aliveAt, sendRet>>
vars      == <<data, pcParse, result, pc, holder, poisoned, stream, written,
               locksDone, rxAlive, bus, received, calls, aliveAt, sendRet>>

(***************************************************************************)
(* Bytes                                                                   *)
(***************************************************************************)
NL   == 10
Hash == 35
CmdW == 87
CmdS == 83

\* char::is_digit(c, 10): the ASCII digits '0'..'9' only.
IsDigit(b) == b >= 48 /\ b <= 57

DigitVal(b) == b - 48

IsCont(b) == b >= 128 /\ b <= 191

\* str::from_utf8 succeeds: the byte sequence is well-formed UTF-8
\* (no overlong forms, no surrogates, nothing above U+10FFFF).
RECURSIVE ValidUtf8From(_, _)
ValidUtf8From(s, i) ==
    IF i > Len(s) THEN TRUE
    ELSE LET b  == s[i]
             c1 == IF i + 1 <= Len(s) THEN s[i + 1] ELSE 0
             c2 == IF i + 2 <= Len(s) THEN s[i + 2] ELSE 0
             c3 == IF i + 3 <= Len(s) THEN s[i + 3] ELSE 0
         IN  IF b < 128 THEN ValidUtf8From(s, i + 1)
             ELSE IF b >= 194 /\ b <= 223
                  THEN IsCont(c1) /\ ValidUtf8From(s, i + 2)
             ELSE IF b = 224
                  THEN c1 >= 160 /\ c1 <= 191 /\ IsCont(c2) /\ ValidUtf8From(s, i + 3)
             ELSE IF (b >= 225 /\ b <= 236) \/ b = 238 \/ b = 239
                  THEN IsCont(c1) /\ IsCont(c2) /\ ValidUtf8From(s, i + 3)
             ELSE IF b = 237
                  THEN c1 >= 128 /\ c1 <= 159 /\ IsCont(c2) /\ ValidUtf8From(s, i + 3)
             ELSE IF b = 240
                  THEN c1 >= 144 /\ c1 <= 191 /\ IsCont(c2) /\ IsCont(c3)
                       /\ ValidUtf8From(s, i + 4)
             ELSE IF b >= 241 /\ b <= 243
                  THEN IsCont(c1) /\ IsCont(c2) /\ IsCont(c3) /\ ValidUtf8From(s, i + 4)
             ELSE IF b = 244
                  THEN c1 >= 128 /\ c1 <= 143 /\ IsCont(c2) /\ IsCont(c3)
                       /\ ValidUtf8From(s, i + 4)
             ELSE FALSE

ValidUtf8(s) == ValidUtf8From(s, 1)

(***************************************************************************)
(* usize values.  A value is its canonical decimal digit sequence (most    *)
(* significant first, no leading zero, zero is <<0>>), so that the 64-bit  *)
(* range is represented exactly.                                           *)
(***************************************************************************)
\* usize::MAX = 2^64 - 1 = 18446744073709551615
UsizeMax == <<1, 8, 4, 4, 6, 7, 4, 4, 0, 7, 3, 7, 0, 9, 5, 5, 1, 6, 1, 5>>

Zero == <<0>>

RECURSIVE LexGt(_, _, _)
LexGt(a, b, i) ==
    IF i > Len(a) THEN FALSE
    ELSE IF a[i] # b[i] THEN a[i] > b[i]
    ELSE LexGt(a, b, i + 1)

\* a > b, for canonical a and b
BigGt(a, b) ==
    IF Len(a) # Len(b) THEN Len(a) > Len(b) ELSE LexGt(a, b, 1)

\* result.checked_mul(10) followed by checked_add(d); not ok when either
\* leaves the usize range
MulAdd(r, d) ==
    LET v == IF r = Zero THEN <<d>> ELSE Append(r, d)
    IN  IF BigGt(v, UsizeMax) THEN [ok |-> FALSE, v |-> Zero]
        ELSE [ok |-> TRUE, v |-> v]

RECURSIVE FromDigits(_, _, _)
FromDigits(s, i, acc) ==
    IF i > Len(s) THEN [ok |-> TRUE, v |-> acc]
    ELSE LET r == MulAdd(acc, DigitVal(s[i]))
         IN  IF ~r.ok THEN r ELSE FromDigits(s, i + 1, r.v)

\* variant: the empty string read as 0
FromStrRadixEmptyIsZero(s) == FromDigits(s, 1, Zero)

\* usize::from_str_radix(s, 10) for s made of ASCII digits only:
\* Err on the empty string (no digits) and on overflow, else the value
FromStrRadix(s) ==
    IF Len(s) = 0 THEN [ok |-> FALSE, v |-> Zero]
    ELSE FromDigits(s, 1, Zero)

RECURSIVE StripZeros(_)
StripZeros(s) ==
    IF Len(s) > 1 /\ s[1] = 0 THEN StripZeros(Tail(s)) ELSE s

\* x - 1, for x >= 1
RECURSIVE BigDecRaw(_)
BigDecRaw(x) ==
    LET n == Len(x)
    IN  IF x[n] > 0 THEN [x EXCEPT ![n] = x[n] - 1]
        ELSE Append(BigDecRaw(SubSeq(x, 1, n - 1)), 9)

BigDec(x) == StripZeros(BigDecRaw(x))

(***************************************************************************)
(* Message::parse                                                          *)
(***************************************************************************)
ErrEmpty      == "Empty controller message"
ErrTerminator == "Controller message must end with '\\n'"
ErrSeparator  == "Missing '#' in controller message"
ErrHeader     == "Missing header in controller message"
ErrEncoding   == "Invalid header in controller message"
ErrIndex      == "Unable to parse agent index"
ErrCommand    == "Invalid controller command"

\* Option<AgentIdx>: None is <<>>, Some(AgentIdx(x)) is <<x>>
None    == <<>>
Some(x) == <<x>>

Err(e) == [ok |-> FALSE, err |-> e, agent_idx |-> None, kind |-> "-", payload |-> <<>>]

Msg(idx, kind, payload) ==
    [ok |-> TRUE, err |-> "-", agent_idx |-> idx, kind |-> kind, payload |-> payload]

\* the loop counting the leading chars c with char::is_digit(c, 10); a char
\* that is not one ASCII byte starts with a byte >= 194 and stops the loop
RECURSIVE NumDigits(_, _)
NumDigits(h, i) ==
    IF i <= Len(h) /\ IsDigit(h[i]) THEN NumDigits(h, i + 1) ELSE i - 1

\* variant: an unrecognised suffix taken for data
CommandLenient(suffix, agent_idx, msg) ==
    IF suffix = <<CmdW>> THEN [ok |-> TRUE, idx |-> agent_idx, kind |-> "Resume", payload |-> <<>>]
    ELSE IF suffix = <<CmdS>> THEN [ok |-> TRUE, idx |-> agent_idx, kind |-> "Terminate", payload |-> <<>>]
    ELSE [ok |-> TRUE, idx |-> agent_idx, kind |-> "Data", payload |-> msg]

\* the match on &header_str[num_digits..]
Command(suffix, agent_idx, msg) ==
    IF suffix = <<>> THEN [ok |-> TRUE, idx |-> agent_idx, kind |-> "Data", payload |-> msg]
    ELSE IF suffix = <<CmdW>> THEN [ok |-> TRUE, idx |-> agent_idx, kind |-> "Resume", payload |-> <<>>]
    ELSE IF suffix = <<CmdS>> THEN [ok |-> TRUE, idx |-> agent_idx, kind |-> "Terminate", payload |-> <<>>]
    ELSE [ok |-> FALSE, err |-> ErrCommand]

ParseHeader(header, msg) ==
    IF Len(header) = 0 THEN [ok |-> FALSE, err |-> ErrHeader]
    ELSE IF ~ValidUtf8(header) THEN [ok |-> FALSE, err |-> ErrEncoding]
    ELSE LET num_digits == NumDigits(header, 1)
             agent_idx  == FromStrRadix(SubSeq(header, 1, num_digits))
         IN  IF ~agent_idx.ok THEN [ok |-> FALSE, err |-> ErrIndex]
             ELSE Command(SubSeq(header, num_digits + 1, Len(header)), agent_idx.v, msg)

\* data.iter().position(|&x| x == b'#'): the first index holding '#', 0 for None
RECURSIVE Position(_, _)
Position(d, i) ==
    IF i > Len(d) THEN 0
    ELSE IF d[i] = Hash THEN i
    ELSE Position(d, i + 1)

\* (&data[..hash_pos], &data[hash_pos + 1..])
SplitHeader(d, hash_pos) == SubSeq(d, 1, hash_pos - 1)
SplitMsg(d, hash_pos)    == SubSeq(d, hash_pos + 1, Len(d))

\* variant: the wire index passed on without the shift to 0-based
TargetUnshifted(agent_idx) ==
    IF agent_idx = Zero THEN None ELSE Some(agent_idx)

\* agent_idx: match agent_idx { 0 => None, x => Some(AgentIdx(x - 1)) }
Target(agent_idx) ==
    IF agent_idx = Zero THEN None ELSE Some(BigDec(agent_idx))

Parse(d) ==
    IF Len(d) = 0 THEN Err(ErrEmpty)
    ELSE IF d[Len(d)] # NL THEN Err(ErrTerminator)
    ELSE LET hash_pos == Position(d, 1)
         IN  IF hash_pos = 0 THEN Err(ErrSeparator)
             ELSE LET h == ParseHeader(SplitHeader(d, hash_pos), SplitMsg(d, hash_pos))
                  IN  IF ~h.ok THEN Err(h.err)
                      ELSE Msg(Target(h.idx), h.kind, h.payload)

(***************************************************************************)
(* Bounds and the inputs drawn under them                                  *)
(***************************************************************************)
\* longest tail of bytes following the leading digit run of an input line
MaxRest == 4

\* the bytes a tail is made of: '0', 'W', 'S', 'X', '#', '\n', and 0xC3 0xA9
\* (together the UTF-8 form of U+00E9, each alone ill-formed)
TailBytes == {48, CmdW, CmdS, 88, Hash, NL, 195, 169}

ToBytes(ds) == [i \in 1..Len(ds) |-> ds[i] + 48]

\* leading digit runs: none, "0", "1", "2", usize::MAX, usize::MAX with a
\* leading zero, usize::MAX + 1
DigitRuns ==
    { <<>>, <<48>>, <<49>>, <<50>>,
      ToBytes(UsizeMax),
      <<48>> \o ToBytes(UsizeMax),
      ToBytes([UsizeMax EXCEPT ![20] = 6]) }

\* the tails of at most max bytes
Tails(max) == UNION { [1..n -> TailBytes] : n \in 0..max }

\* the input lines: a leading digit run followed by a tail
Lines(max) == { p \o t : p \in DigitRuns, t \in Tails(max) }

NoResult == Err("-")

ParseInit ==
    /\ data \in Lines(MaxRest)
    /\ pcParse = "ready"
    /\ result = NoResult

\* one call of Message::parse on the line
ParseCall ==
    /\ pcParse = "ready"
    /\ result' = Parse(data)
    /\ pcParse' = "done"
    /\ UNCHANGED <<data, lockVars, busVars>>

(***************************************************************************)
(* Threads and handles                                                     *)
(***************************************************************************)
NumControllers == 2     \* threads owning a clone of the Controller
NumAgents      == 1     \* threads owning a clone of an Agent
MaxLocks       == 3     \* calls of Controller::stdin, all threads together
MarkerLen      == 2     \* bytes a writer writes under one guard
MaxSends       == 3     \* calls of send, all threads together

Controllers == 1..NumControllers
Agents      == (NumControllers + 1)..(NumControllers + NumAgents)
Threads     == Controllers \cup Agents

\* the RunnerMessage values passed to send
Events == {"a", "b"}

RECURSIVE SumOver(_, _)
SumOver(f, S) ==
    IF S = {} THEN 0
    ELSE LET t == CHOOSE x \in S : TRUE
         IN  f[t] + SumOver(f, S \ {t})

LockInit ==
    /\ pc = [t \in Threads |-> "idle"]
    /\ holder = 0
    /\ poisoned = FALSE
    /\ stream = <<>>
    /\ written = [t \in Threads |-> 0]
    /\ locksDone = [t \in Threads |-> 0]

BusInit ==
    /\ rxAlive = TRUE
    /\ bus = <<>>
    /\ received = 0
    /\ calls = [t \in Threads |-> <<>>]
    /\ aliveAt = [t \in Threads |-> <<>>]
    /\ sendRet = [t \in Threads |-> "none"]

(***************************************************************************)
(* Controller::stdin: self.stdin.lock().unwrap(), and the MutexGuard       *)
(***************************************************************************)
\* variant: every clone locks a mutex of its own
LockAvailablePerClone(h) == TRUE

\* Mutex::lock blocks until no thread owns the mutex; every clone of the
\* Controller holds the same Arc<Mutex<WritePipe>>
LockAvailable(h) == h = 0

\* LockResult::unwrap: Err(PoisonError) panics, Ok(guard) returns the guard
Unwrap(isPoisoned) == IF isPoisoned THEN "stdin_panicked" ELSE "scope"

\* variant: a guard that is not released when its holder unwinds
GuardDropLeakedOnPanic(isPoisoned, panicking) ==
    [holder |-> IF panicking THEN holder ELSE 0, poisoned |-> isPoisoned \/ panicking]

\* dropping the MutexGuard: the mutex is unlocked, and marked poisoned when
\* the drop happens while the thread unwinds from a panic
GuardDrop(isPoisoned, panicking) ==
    [holder |-> 0, poisoned |-> isPoisoned \/ panicking]

\* the thread enters stdin() and waits in Mutex::lock
StdinCall(t) ==
    /\ pc[t] = "idle"
    /\ SumOver(locksDone, Controllers) < MaxLocks
    /\ pc' = [pc EXCEPT ![t] = "waiting"]
    /\ locksDone' = [locksDone EXCEPT ![t] = @ + 1]
    /\ UNCHANGED <<holder, poisoned, stream, written>>
    /\ UNCHANGED <<parseVars, busVars>>

\* Mutex::lock returns: the thread owns the mutex and has the LockResult
LockAcquire(t) ==
    /\ pc[t] = "waiting"
    /\ LockAvailable(holder)
    /\ holder' = t
    /\ pc' = [pc EXCEPT ![t] = "acquired"]
    /\ UNCHANGED <<poisoned, stream, written, locksDone>>
    /\ UNCHANGED <<parseVars, busVars>>

\* unwrap() on the LockResult: the guard reaches the caller, or the thread
\* panics and the guard inside the PoisonError is dropped while it unwinds
StdinReturn(t) ==
    /\ pc[t] = "acquired"
    /\ LET to == Unwrap(poisoned)
       IN  /\ pc' = [pc EXCEPT ![t] = to]
           /\ IF to = "scope"
              THEN /\ written' = [written EXCEPT ![t] = 0]
                   /\ UNCHANGED <<holder, poisoned>>
              ELSE /\ holder' = GuardDrop(poisoned, TRUE).holder
                   /\ poisoned' = GuardDrop(poisoned, TRUE).poisoned
                   /\ UNCHANGED written
    /\ UNCHANGED <<stream, locksDone>>
    /\ UNCHANGED <<parseVars, busVars>>

\* the holder of the guard writes the next byte of its marker to the pipe
WriteByte(t) ==
    /\ pc[t] = "scope"
    /\ written[t] < MarkerLen
    /\ stream' = Append(stream, <<t, locksDone[t], written[t] + 1>>)
    /\ written' = [written EXCEPT ![t] = @ + 1]
    /\ UNCHANGED <<pc, holder, poisoned, locksDone>>
    /\ UNCHANGED <<parseVars, busVars>>

\* the guard goes out of scope on normal return
ScopeExit(t) ==
    /\ pc[t] = "scope"
    /\ written[t] = MarkerLen
    /\ holder' = GuardDrop(poisoned, FALSE).holder
    /\ poisoned' = GuardDrop(poisoned, FALSE).poisoned
    /\ pc' = [pc EXCEPT ![t] = "idle"]
    /\ UNCHANGED <<stream, written, locksDone>>
    /\ UNCHANGED <<parseVars, busVars>>

\* the holder panics inside the guard's scope; unwinding drops the guard
ScopePanic(t) ==
    /\ pc[t] = "scope"
    /\ holder' = GuardDrop(poisoned, TRUE).holder
    /\ poisoned' = GuardDrop(poisoned, TRUE).poisoned
    /\ pc' = [pc EXCEPT ![t] = "panicked"]
    /\ UNCHANGED <<stream, written, locksDone>>
    /\ UNCHANGED <<parseVars, busVars>>

(***************************************************************************)
(* Controller::send, Agent::send: let _ = self.sender.send(msg); self      *)
(***************************************************************************)
\* variant: a channel of capacity one, the value dropped when it is full
ChannelSendBounded(q, alive, x) ==
    IF alive /\ Len(q) = received THEN [q |-> Append(q, x), r |-> "Ok"]
    ELSE [q |-> q, r |-> "Err"]

\* variant: the value overtakes the one enqueued before it
ChannelSendOvertakes(q, alive, x) ==
    IF ~alive THEN [q |-> q, r |-> "Err"]
    ELSE IF Len(q) = 0 THEN [q |-> <<x>>, r |-> "Ok"]
    ELSE [q |-> SubSeq(q, 1, Len(q) - 1) \o <<x, q[Len(q)]>>, r |-> "Ok"]

\* Sender::send on the unbounded channel: the value is appended to the queue
\* and Ok(()) returned, or, the Receiver being gone, Err(SendError(value))
ChannelSend(q, alive, x) ==
    IF alive THEN [q |-> Append(q, x), r |-> "Ok"] ELSE [q |-> q, r |-> "Err"]

\* variant: self.sender.send(msg).unwrap()
DiscardUnwrap(r) == IF r = "Err" THEN "panicked" ELSE "returned"

\* let _ = <result>; self
Discard(r) == "returned"

Send(t, e) ==
    /\ sendRet[t] # "panicked"
    /\ SumOver([u \in Threads |-> Len(calls[u])], Threads) < MaxSends
    /\ LET s == ChannelSend(bus, rxAlive, [src |-> t, ev |-> e])
       IN  /\ bus' = s.q
           /\ sendRet' = [sendRet EXCEPT ![t] = Discard(s.r)]
    /\ calls' = [calls EXCEPT ![t] = Append(@, e)]
    /\ aliveAt' = [aliveAt EXCEPT ![t] = Append(@, rxAlive)]
    /\ UNCHANGED <<rxAlive, received>>
    /\ UNCHANGED <<parseVars, lockVars>>

ControllerSend(t, e) == t \in Controllers /\ Send(t, e)

AgentSend(t, e) == t \in Agents /\ Send(t, e)

\* the supervisor's loop takes the next event from the channel
Recv ==
    /\ rxAlive
    /\ received < Len(bus)
    /\ received' = received + 1
    /\ UNCHANGED <<rxAlive, bus, calls, aliveAt, sendRet>>
    /\ UNCHANGED <<parseVars, lockVars>>

\* the Receiver is dropped: shutdown
DropReceiver ==
    /\ rxAlive
    /\ rxAlive' = FALSE
    /\ UNCHANGED <<bus, received, calls, aliveAt, sendRet>>
    /\ UNCHANGED <<parseVars, lockVars>>

(***************************************************************************)
(* Specifications                                                          *)
(***************************************************************************)
InitParse == ParseInit /\ LockInit /\ BusInit
NextParse == ParseCall
SpecParse == InitParse /\ [][NextParse]_vars

ParseIdle == data = <<>> /\ pcParse = "ready" /\ result = NoResult

InitLock == ParseIdle /\ LockInit /\ BusInit
NextLock ==
    \/ \E t \in Controllers : StdinCall(t)
    \/ \E t \in Controllers : LockAcquire(t)
    \/ \E t \in Controllers : StdinReturn(t)
    \/ \E t \in Controllers : WriteByte(t)
    \/ \E t \in Controllers : ScopeExit(t)
    \/ \E t \in Controllers : ScopePanic(t)
SpecLock == InitLock /\ [][NextLock]_vars

InitBus == ParseIdle /\ LockInit /\ BusInit
NextBus ==
    \/ \E t \in Threads, e \in Events : ControllerSend(t, e)
    \/ \E t \in Threads, e \in Events : AgentSend(t, e)
    \/ Recv
    \/ DropReceiver
SpecBus == InitBus /\ [][NextBus]_vars

(***************************************************************************)
(* Properties of Message::parse (checked under SpecParse)                  *)
(***************************************************************************)
Parsed == pcParse = "done"

Fails(e) == ~result.ok /\ result.err = e

Suffixes == {<<>>, <<CmdW>>, <<CmdS>>}

AllDigits(s) == \A i \in 1..Len(s) : s[i] \in 48..57

\* the number a digit string denotes
Canon(s) == StripZeros([i \in 1..Len(s) |-> s[i] - 48])

Fits(s) == ~BigGt(Canon(s), UsizeMax)

\* x + 1
RECURSIVE BigInc(_)
BigInc(x) ==
    LET n == Len(x)
    IN  IF x[n] < 9 THEN [x EXCEPT ![n] = x[n] + 1]
        ELSE IF n = 1 THEN <<1, 0>>
        ELSE Append(BigInc(SubSeq(x, 1, n - 1)), 0)

KindOf(suf) ==
    IF suf = <<>> THEN "Data" ELSE IF suf = <<CmdW>> THEN "Resume" ELSE "Terminate"

\* d is <n><suf>#<payload>\n with <n> its first k bytes
WellFormedAt(d, k, suf) ==
    /\ k >= 1
    /\ k + Len(suf) + 2 <= Len(d)
    /\ AllDigits(SubSeq(d, 1, k))
    /\ SubSeq(d, k + 1, k + Len(suf)) = suf
    /\ d[k + Len(suf) + 1] = Hash
    /\ d[Len(d)] = NL
    /\ Fits(SubSeq(d, 1, k))

HasHash(d) == \E i \in 1..Len(d) : d[i] = Hash

FirstHash(d) ==
    CHOOSE i \in 1..Len(d) : d[i] = Hash /\ \A j \in 1..(i - 1) : d[j] # Hash

\* d ends with the terminator and holds a separator
Framed(d) == Len(d) > 0 /\ d[Len(d)] = NL /\ HasHash(d)

HeaderOf(d) == SubSeq(d, 1, FirstHash(d) - 1)

\* length of the longest prefix of h made of digits
DigitRun(h) ==
    CHOOSE k \in 0..Len(h) :
        AllDigits(SubSeq(h, 1, k)) /\ (k = Len(h) \/ h[k + 1] \notin 48..57)

\* C1: every line <n><suffix>#<payload>\n, <n> a non-empty digit run whose
\* value fits usize and <suffix> one of "", "W", "S", decodes; the target is
\* None exactly when n is 0 and Some(AgentIdx(n - 1)) otherwise; the kind is
\* Data for "", Resume for "W", Terminate for "S", and Resume and Terminate
\* carry nothing of the payload.
C1_WellFormedLineDecodes ==
    Parsed =>
        \A k \in 1..Len(data) : \A suf \in Suffixes :
            WellFormedAt(data, k, suf) =>
                LET n == Canon(SubSeq(data, 1, k))
                IN  /\ result.ok
                    /\ (result.agent_idx = None) <=> (n = Zero)
                    /\ n # Zero =>
                          /\ Len(result.agent_idx) = 1
                          /\ BigInc(result.agent_idx[1]) = n
                    /\ result.kind = KindOf(suf)
                    /\ suf # <<>> => result.payload = <<>>

\* the line "18446744073709551615S#\n" has been decoded to Terminate for
\* agent usize::MAX - 1
C1_Witness ==
    /\ Parsed
    /\ WellFormedAt(data, 20, <<CmdS>>)
    /\ Canon(SubSeq(data, 1, 20)) = UsizeMax
    /\ result.ok
    /\ result.kind = "Terminate"
    /\ result.agent_idx = Some([UsizeMax EXCEPT ![20] = 4])

\* C2: a Data payload is the input strictly after the first '#' and strictly
\* before the trailing '\n'.
C2_PayloadExcludesTerminator ==
    (Parsed /\ result.ok /\ result.kind = "Data") =>
        result.payload = SubSeq(data, FirstHash(data) + 1, Len(data) - 1)

\* what the decoder returns instead: the input after the first '#' through
\* its last byte, the terminator included
C2_PayloadKeepsTerminator ==
    (Parsed /\ result.ok /\ result.kind = "Data") =>
        /\ result.payload = SubSeq(data, FirstHash(data) + 1, Len(data))
        /\ result.payload[Len(result.payload)] = NL

\* C3: a malformed line fails with the error of the first check it fails, in
\* decoding order: empty input; no trailing '\n'; no '#'; empty header;
\* header not UTF-8; digit run out of the usize range; digit run followed by
\* a suffix other than "", "W", "S".
C3_MalformedLineRejected ==
    Parsed =>
        LET h   == HeaderOf(data)
            k   == DigitRun(h)
            run == SubSeq(h, 1, k)
            suf == SubSeq(h, k + 1, Len(h))
        IN  /\ Len(data) = 0 => Fails(ErrEmpty)
            /\ (Len(data) > 0 /\ data[Len(data)] # NL) => Fails(ErrTerminator)
            /\ (Len(data) > 0 /\ data[Len(data)] = NL /\ ~HasHash(data))
                  => Fails(ErrSeparator)
            /\ (Framed(data) /\ data[1] = Hash) => Fails(ErrHeader)
            /\ (Framed(data) /\ data[1] # Hash /\ ~ValidUtf8(h)) => Fails(ErrEncoding)
            /\ (Framed(data) /\ ValidUtf8(h) /\ k >= 1 /\ ~Fits(run))
                  => Fails(ErrIndex)
            /\ (Framed(data) /\ ValidUtf8(h) /\ k >= 1 /\ Fits(run)
                  /\ suf \notin Suffixes) => Fails(ErrCommand)

\* the line "1X#\n" has been rejected as an invalid command
C3_Witness ==
    /\ Parsed
    /\ data = <<49, 88, Hash, NL>>
    /\ Fails(ErrCommand)

\* C10: a line whose non-empty UTF-8 header does not start with a digit is
\* rejected with the index error, whatever follows in the header.
C10_NoDigitIsIndexError ==
    (Parsed /\ Framed(data) /\ Len(HeaderOf(data)) > 0
        /\ ValidUtf8(HeaderOf(data)) /\ HeaderOf(data)[1] \notin 48..57)
    => Fails(ErrIndex)

\* the line "W#\n" has been rejected with the index error
C10_Witness ==
    /\ Parsed
    /\ data = <<CmdW, Hash, NL>>
    /\ Fails(ErrIndex)

(***************************************************************************)
(* Properties of Controller::stdin (checked under SpecLock)                *)
(***************************************************************************)
\* the writer and guard scope a byte of the stream belongs to
Block(i) == <<stream[i][1], stream[i][2]>>

\* C4: at most one thread holds the guard returned by Controller::stdin,
\* whichever clones the threads use, and the bytes written under one guard
\* are contiguous in the stream.
C4_OneGuardAtATime ==
    /\ Cardinality({t \in Controllers : pc[t] = "scope"}) <= 1
    /\ \A t \in Controllers : pc[t] = "scope" => holder = t
    /\ \A i \in 1..Len(stream) : \A j \in i..Len(stream) :
          Block(i) = Block(j) => \A m \in i..j : Block(m) = Block(i)

\* one thread is writing under the guard while another, which has written
\* before, waits in stdin()
C4_Witness ==
    \E t1 \in Controllers, t2 \in Controllers :
        /\ t1 # t2
        /\ pc[t1] = "scope"
        /\ written[t1] >= 1
        /\ pc[t2] = "waiting"
        /\ \E i \in 1..Len(stream) : stream[i][1] = t2

\* C5: once a writer has panicked while holding the guard, a later call of
\* Controller::stdin still returns a guard: no call ends in a panic.
C5_PoisonIsRecovered ==
    poisoned => \A t \in Controllers : pc[t] # "stdin_panicked"

\* C9: a thread that is outside the scope of a guard (idle, waiting in
\* stdin, or gone after a panic) does not own the mutex; a waiting caller is
\* blocked only by a thread that is inside stdin or inside a guard's scope.
C9_GuardReleasedOnEveryExit ==
    /\ \A t \in Controllers :
          pc[t] \in {"idle", "waiting", "panicked", "stdin_panicked"} => holder # t
    /\ holder # 0 => pc[holder] \in {"acquired", "scope"}

\* one thread has left its scope normally and calls stdin() again, the other
\* has left its scope by a panic, and the mutex is free
C9_Witness ==
    \E t1 \in Controllers, t2 \in Controllers :
        /\ t1 # t2
        /\ pc[t1] = "panicked"
        /\ pc[t2] = "waiting"
        /\ \E i \in 1..Len(stream) : stream[i] = <<t2, 1, MarkerLen>>
        /\ holder = 0

(***************************************************************************)
(* Properties of Controller::send and Agent::send (checked under SpecBus)  *)
(***************************************************************************)
CountOnBus(t, e) ==
    Cardinality({i \in 1..Len(bus) : bus[i] = [src |-> t, ev |-> e]})

CountCalls(t, e) ==
    Cardinality({k \in 1..Len(calls[t]) : calls[t][k] = e})

\* the calls of thread t made while the receiver was alive, in call order
RECURSIVE CallsAliveFrom(_, _)
CallsAliveFrom(t, k) ==
    IF k > Len(calls[t]) THEN <<>>
    ELSE (IF aliveAt[t][k] THEN <<calls[t][k]>> ELSE <<>>) \o CallsAliveFrom(t, k + 1)

\* the events of source t on the bus, in bus order
RECURSIVE BusOfFrom(_, _)
BusOfFrom(t, i) ==
    IF i > Len(bus) THEN <<>>
    ELSE (IF bus[i].src = t THEN <<bus[i].ev>> ELSE <<>>) \o BusOfFrom(t, i + 1)

\* C6: a send made after the receiver was dropped returns normally, the
\* thread can go on, and nothing is enqueued for it.
C6_SendAfterDropReturns ==
    /\ \A t \in Threads :
          (\E k \in 1..Len(aliveAt[t]) : ~aliveAt[t][k]) => sendRet[t] = "returned"
    /\ Len(bus) = SumOver([t \in Threads |-> Len(CallsAliveFrom(t, 1))], Threads)

\* a thread has sent twice after the drop, and another thread once
C6_Witness ==
    \E t1 \in Threads, t2 \in Threads :
        /\ t1 # t2
        /\ ~rxAlive
        /\ Len(calls[t1]) >= 2 /\ ~aliveAt[t1][1] /\ ~aliveAt[t1][2]
        /\ Len(calls[t2]) >= 1 /\ ~aliveAt[t2][1]
        /\ sendRet[t1] = "returned" /\ sendRet[t2] = "returned"

\* C7: while the receiver is alive, each event is on the bus as many times
\* as it was passed to send, for every sending thread.
C7_NoLossNoDuplicate ==
    rxAlive => \A t \in Threads, e \in Events : CountOnBus(t, e) = CountCalls(t, e)

\* two clones of the Controller have sent, one of them the same event twice
C7_Witness ==
    \E t1 \in Controllers, t2 \in Controllers :
        /\ t1 # t2
        /\ rxAlive
        /\ Len(calls[t1]) >= 2 /\ calls[t1][1] = calls[t1][2]
        /\ Len(calls[t2]) >= 1

\* C8: for each source, its events are on the bus in the order of its send
\* calls.
C8_PerSourceOrder ==
    \A t \in Threads : BusOfFrom(t, 1) = CallsAliveFrom(t, 1)

\* two different events of one source are on the bus with an event of
\* another source between them
C8_Witness ==
    \E i \in 1..Len(bus), j \in 1..Len(bus), k \in 1..Len(bus) :
        /\ i < j /\ j < k
        /\ bus[i].src = bus[k].src
        /\ bus[j].src # bus[i].src
        /\ bus[i].ev # bus[k].ev

====
